---- MODULE Spec2Model ----
(***************************************************************************)
(* Model of the Enatega estimation bot: the context aggregator             *)
(* (knowledge_base.py, vector_store.py), the estimate extractor cascade    *)
(* (openai_service.py), the reconciliation engine (estimation_engine.py)   *)
(* and the POST /estimate handler (endpoints.py).                          *)
(*                                                                         *)
(* Numbers are exact decimals in fixed point.  Hours are integers in       *)
(* centi-hours (1/100 h), money in cents, the hourly rate a fraction of    *)
(* dollars.  Python's round(x, n) rounds the double it is given: away from *)
(* an exact decimal tie the result is the nearest decimal, and at a tie it *)
(* is decided by the side of the tie the double lies on (half-to-even when *)
(* the double is the tie itself).  Text is modelled by its length and by   *)
(* the set of words it contains.                                           *)
(***************************************************************************)
EXTENDS Integers, Sequences, FiniteSets, TLC

VARIABLES
    pc,          \* control location of the operation in progress
    raw,         \* the raw item list handed to _normalize_features
    normres,     \* what _normalize_features did with it
    features,    \* the feature list handed to create_breakdown
    rate,        \* the engine's hourly rate
    breakdown,   \* the breakdown lines create_breakdown returned
    totals,      \* the tuple calculate_total returned
    permTotals,  \* calculate_total of the same lines in another order
    client,      \* OpenAIService.client is set (an API key is configured)
    estimates_txt, \* KnowledgeBase.chatgpt_examples (Estimates.txt) is non-empty
    req,         \* the POST /estimate request being handled
    combined,    \* combined_requirements of the handler
    context,     \* what kb.get_context_for_query gave the handler
    ctxCalls,    \* calls of kb.get_context_for_query made by the handler
    attempt,     \* calls of extract_features_from_query made by the handler
    exc,         \* the extractor is inside its "except Exception" handler
    calls,       \* LLM call sites used by the current extractor call, in order
    classified,  \* verdict of the extractor's first vague-query check
    xres,        \* how the current extractor call ended
    pending,     \* the exception travelling up through the handler
    resp,        \* the HTTP response
    tmp,         \* the temporary file of the upload: "none", "exists", "removed"
    cq,          \* a call of KnowledgeBase.get_context_for_query
    cres,        \* the string that call returned
    retrievals,  \* context retrievals made by the current extractor call
    prompt,      \* sections of the context in the primary extraction prompt
    via,         \* the endpoint the current request came through
    chat,        \* the POST /chat request being handled and its response
    narr,        \* a call of generate_estimate_response and its narrative
    vq,          \* a call of _is_query_vague_or_irrelevant and its verdict
    buf,         \* a call of EstimationEngine.apply_buffer and its result
    knowledge_base, \* endpoints._knowledge_base: 0 is None, else the instance
    openai_service, \* endpoints._openai_service: 0 is None, else the instance
    built,       \* KnowledgeBase objects constructed in this process
    thr          \* the dependency calls in flight, one per request

engineVars == <<features, rate, breakdown, totals>>
normVars == <<raw, normres, permTotals>>
envVars == <<client, estimates_txt>>
reqVars == <<req, combined, context, ctxCalls, attempt, pending, resp, tmp>>
xVars == <<exc, calls, classified, xres, retrievals, prompt>>
ctxVars == <<cq, cres>>
chatVars == <<via, chat>>
svcVars == <<narr, vq, buf>>
depVars == <<knowledge_base, openai_service, built, thr>>
restVars == <<chatVars, svcVars, depVars>>
vars == <<pc, raw, normres, features, rate, breakdown, totals, permTotals,
          client, estimates_txt, req, combined, context, ctxCalls, attempt,
          exc, calls, classified, xres, pending, resp, tmp, cq, cres,
          retrievals, prompt, via, chat, narr, vq, buf,
          knowledge_base, openai_service, built, thr>>

----------------------------------------------------------------------------
(* Bounds of the model *)

\* longest list of raw items an LLM answer carries
MaxFeatures == 2

----------------------------------------------------------------------------
(* Fixed-point arithmetic *)

\* round(n / d) to the nearest integer (d > 0); at an exact tie the double
\* below the tie (side < 0) rounds down, the double above it (side > 0)
\* rounds up, and the tie itself (side = 0) rounds to even
RoundSide(n, d, side) ==
    LET q == n \div d
        r == n % d
    IN  IF 2 * r < d THEN q
        ELSE IF 2 * r > d THEN q + 1
        ELSE IF side < 0 THEN q
        ELSE IF side > 0 THEN q + 1
        ELSE IF q % 2 = 0 THEN q ELSE q + 1

RoundHalfEven(n, d) == RoundSide(n, d, 0)

RECURSIVE SumSeq(_)
SumSeq(s) == IF s = <<>> THEN 0 ELSE Head(s) + SumSeq(Tail(s))

----------------------------------------------------------------------------
(* Raw items as the LLM may return them *)

Complexities == {"simple", "medium", "complex"}

\* shape "both": base_time_hours_min and base_time_hours_max present
\* shape "single": only base_time_hours present
\* shape "none": no hours at all
\* shape "bad": the hours are present but are not numbers (a string, null)
\* "name" tells whether the item's name is a string (it may be null)
RawItem(shape, mn, mx, base, cx) ==
    [shape |-> shape, min |-> mn, max |-> mx, base |-> base, cx |-> cx,
     name |-> TRUE]

Nameless(item) == [item EXCEPT !.name = FALSE]

RawItems ==
    { RawItem("both", 1000, 1200, 0, "medium"),      \* 10 - 12 h
      RawItem("both", 1000, 1800, 0, "medium"),      \* 10 - 18 h, wider than 1.5x
      RawItem("both", 1000, 1400, 0, "medium"),      \* 10 - 14 h, between 1.3x and 1.5x
      RawItem("both", 1000, 500, 0, "medium"),       \* 10 - 5 h, inverted
      RawItem("both", 0, 1000, 0, "simple"),         \* 0 - 10 h
      RawItem("both", 33, 49, 0, "simple"),          \* 0.33 - 0.49 h
      RawItem("single", 0, 0, 1000, "medium"),       \* 10 h
      RawItem("single", 0, 0, 40, "simple"),         \* 0.4 h
      RawItem("none", 0, 0, 0, "simple"),
      RawItem("none", 0, 0, 0, "medium"),
      RawItem("none", 0, 0, 0, "complex"),
      RawItem("bad", 0, 0, 0, "medium") }

RECURSIVE SeqsUpTo(_, _)
SeqsUpTo(S, n) ==
    IF n = 0 THEN { <<>> }
    ELSE LET shorter == SeqsUpTo(S, n - 1)
         IN  shorter \cup { Append(s, x) : s \in shorter, x \in S }

RawLists == SeqsUpTo(RawItems, MaxFeatures)

----------------------------------------------------------------------------
(* OpenAIService._normalize_features *)

\* a feature estimate: hours in centi-hours; "norm" records that the item
\* went through _normalize_features, "stage" which cascade stage produced it
Feature(mn, mx, cx, norm, stage) ==
    [min |-> mn, max |-> mx, cx |-> cx, norm |-> norm, stage |-> stage,
     name |-> TRUE]

\* round(h, 1) of a value given in centi-hours
Round1(h) == 10 * RoundHalfEven(h, 10)

\* the cap of the both-branch: max_h > min_h * 1.5 -> max_h = min_h * 1.3
CapMax(mn, mx) == IF 2 * mx > 3 * mn THEN 10 * RoundHalfEven(mn * 13, 100)
                  ELSE Round1(mx)

DefaultMin(cx) == IF cx = "simple" THEN 2000
                  ELSE IF cx = "complex" THEN 7000 ELSE 4000

DefaultMax(cx) == IF cx = "simple" THEN 3500
                  ELSE IF cx = "complex" THEN 12000 ELSE 6500

\* the hours of one iteration of the loop body, for an item whose hours are
\* numbers
normalize_hours(item, stage) ==
    IF item.shape = "both"
    THEN Feature(Round1(item.min), CapMax(item.min, item.max), item.cx, TRUE, stage)
    ELSE IF item.shape = "single"
    THEN Feature(10 * RoundHalfEven(item.base * 85, 1000),
                 10 * RoundHalfEven(item.base * 115, 1000), item.cx, TRUE, stage)
    ELSE Feature(DefaultMin(item.cx), DefaultMax(item.cx), item.cx, TRUE, stage)

\* {**feature, ...}: every other key of the item, its name included, is kept
normalize_item(item, stage) ==
    [normalize_hours(item, stage) EXCEPT !.name = item.name]

\* the whole call: arithmetic on a non-number raises (TypeError), and the
\* exception leaves the function; otherwise the normalized list is returned
normalize_features(items, stage) ==
    IF \E i \in 1..Len(items) : items[i].shape = "bad"
    THEN [raised |-> TRUE, val |-> <<>>]
    ELSE [raised |-> FALSE,
          val |-> [i \in 1..Len(items) |-> normalize_item(items[i], stage)]]

----------------------------------------------------------------------------
(* The LLM: what one chat completion call may come back with *)

\* kind "error":         the call raises (transport error, no content)
\* kind "prose":         text that is not JSON, without brackets or braces
\* kind "keyword_prose": prose containing "true", "vague" or "irrelevant"
\* kind "hours_prose":   prose containing "<lo>-<hi> hours"
\* kind "truncated":     a JSON array cut off before any closing bracket
\* kind "list":          a JSON array holding the objects "items"
\* kind "wrapped":       the JSON object {"features": [items]}
\* kind "span":          prose around a JSON array holding "items"
\* kind "partial":       an array cut off inside an object, after the complete
\*                       objects "items" and after a "]" nested in the cut one
\* kind "feature":       a JSON object that is the single item "items[1]"
\* kind "verdict_true", "verdict_false": {"is_vague_or_irrelevant": ...}
\* kind "match":         {"name": "...", "hours": lo}
\* kind "match_bad":     {"name": "...", "hours": "n/a"}
\* kind "scalar":        a JSON number, string, true, false or null
Reply(kind, items, lo, hi) ==
    [kind |-> kind, items |-> items, lo |-> lo, hi |-> hi]

LlmItems ==
    { RawItem("both", 1000, 1200, 0, "medium"),
      RawItem("both", 1000, 500, 0, "medium"),
      RawItem("single", 0, 0, 1000, "medium"),
      RawItem("none", 0, 0, 0, "simple"),
      RawItem("bad", 0, 0, 0, "medium"),
      Nameless(RawItem("both", 1000, 1200, 0, "medium")) }

LlmLists == SeqsUpTo(LlmItems, MaxFeatures)

\* the hours a feature match carries
KeyHours == {0, 2, 40}

\* the hour ranges prose may mention
ProseRanges == { <<40, 60>>, <<60, 40>> }

LlmReplies ==
    { Reply(k, <<>>, 0, 0) :
        k \in {"error", "prose", "keyword_prose", "truncated", "verdict_true",
               "verdict_false", "match_bad", "scalar"} }
    \cup { Reply("match", <<>>, h, 0) : h \in KeyHours }
    \cup { Reply("hours_prose", <<>>, r[1], r[2]) : r \in ProseRanges }
    \cup { Reply("feature", <<it>>, 0, 0) : it \in LlmItems }
    \cup { Reply(k, l, 0, 0) : k \in {"list", "wrapped", "span", "partial"},
                               l \in LlmLists }

\* re.search(r'\[[\s\S]*?\]', content) finds a span that json.loads accepts
has_array_span(reply) == reply.kind \in {"list", "wrapped", "span"}

----------------------------------------------------------------------------
(* OpenAIService: the stages of extract_features_from_query *)

\* what a stage hands back: a returned list, an exception, or nothing (the
\* cascade goes on to its next stage)
Returned(val, stage) == [ret |-> TRUE, raised |-> FALSE, val |-> val, stage |-> stage]
Raised(stage) == [ret |-> FALSE, raised |-> TRUE, val |-> <<>>, stage |-> stage]
Nothing == [ret |-> FALSE, raised |-> FALSE, val |-> <<>>, stage |-> "nothing"]

\* "return self._normalize_features(x)" inside a try whose except passes
normalized_or_nothing(items, stage) ==
    LET n == normalize_features(items, stage)
    IN  IF n.raised THEN Nothing ELSE Returned(n.val, stage)

\* Strategy 1: json.loads of the whole content
strategy_direct(reply) ==
    IF reply.kind \in {"list", "wrapped"}
    THEN normalized_or_nothing(reply.items, "direct")
    ELSE Nothing

\* Strategy 2: the first bracket span, or the complete objects inside it
\* when it holds more "{" than "}"
strategy_bracket(reply) ==
    IF has_array_span(reply)
    THEN normalized_or_nothing(reply.items, "bracket")
    ELSE IF reply.kind = "partial" /\ reply.items # <<>>
    THEN normalized_or_nothing(reply.items, "per_object")
    ELSE Nothing

\* Strategy 3: the same span once more
strategy_array(reply) ==
    IF has_array_span(reply)
    THEN normalized_or_nothing(reply.items, "array")
    ELSE Nothing

\* the primary extraction call and Strategies 1-3 on its content
primary_parse(reply) ==
    IF reply.kind = "error" THEN Raised("primary")
    ELSE IF strategy_direct(reply).ret THEN strategy_direct(reply)
    ELSE IF strategy_bracket(reply).ret THEN strategy_bracket(reply)
    ELSE strategy_array(reply)

\* int(x) of a non-negative number n / d
IntOf(n, d) == n \div d

MaxOf(a, b) == IF a >= b THEN a ELSE b

\* _extract_from_estimates_txt and _extract_from_estimates_txt_direct: the
\* match found, as a list of one feature, or the empty list for None
\* (int(hours * 0.85) and int(hours * 1.15) are exact for the hours in KeyHours)
extract_from_estimates_txt(reply, stage) ==
    IF reply.kind = "match"
    THEN << Feature(100 * MaxOf(1, IntOf(reply.lo * 85, 100)),
                    100 * IntOf(reply.lo * 115, 100), "medium", FALSE, stage) >>
    ELSE <<>>

\* the re-query of _fallback_feature_extraction without its
\* "except Exception": what it raises leaves the function
fallback_query_unguarded(reply) ==
    IF reply.kind = "error" THEN Raised("fallback")
    ELSE IF has_array_span(reply) \/ (reply.kind = "partial" /\ reply.items # <<>>)
    THEN LET n == normalize_features(reply.items, "fallback")
         IN  IF n.raised
             THEN IF reply.kind = "partial" THEN Returned(<<>>, "fallback")
                  ELSE Raised("fallback")
             ELSE Returned(n.val, "fallback")
    ELSE Returned(<<>>, "fallback")

\* the re-query of _fallback_feature_extraction: the bracket span, or the
\* complete objects when the span does not parse; [] on anything else and on
\* every exception
fallback_query(reply) ==
    IF reply.kind = "error" THEN Returned(<<>>, "fallback")
    ELSE IF has_array_span(reply) \/ (reply.kind = "partial" /\ reply.items # <<>>)
    THEN LET n == normalize_features(reply.items, "fallback")
         IN  IF n.raised THEN Returned(<<>>, "fallback")
             ELSE Returned(n.val, "fallback")
    ELSE Returned(<<>>, "fallback")

\* the basic estimate _generate_estimate_from_knowledge ends with: 25 - 50 h
BasicEstimate == << Feature(2500, 5000, "medium", FALSE, "knowledge_basic") >>

\* _generate_estimate_from_knowledge
generate_estimate_from_knowledge(reply) ==
    IF reply.kind = "error" THEN BasicEstimate
    ELSE IF reply.kind = "scalar" THEN <<>>
    ELSE IF reply.kind \in {"list", "feature"}
    THEN LET n == normalize_features(reply.items, "knowledge")
         IN  IF n.raised \/ n.val = <<>> THEN BasicEstimate ELSE n.val
    ELSE IF reply.kind \in {"wrapped", "verdict_true", "verdict_false",
                            "match", "match_bad"}
    THEN normalize_features(<< RawItem("none", 0, 0, 0, "medium") >>, "knowledge").val
    ELSE IF reply.kind = "hours_prose"
    THEN << Feature(100 * reply.lo, 100 * reply.hi, "medium", FALSE,
                    "knowledge_regex") >>
    ELSE BasicEstimate

\* _is_query_vague_or_irrelevant
is_query_vague_or_irrelevant(reply) ==
    reply.kind \in {"verdict_true", "keyword_prose"}

\* the estimate the cascade ends with when every stage gave nothing: 20 - 40 h
HardCodedEstimate == << Feature(2000, 4000, "medium", FALSE, "hardcoded") >>

\* an emergency feature with the range of the cascade's last resort
EmergencyFeature_hardcoded == Feature(2000, 4000, "medium", FALSE, "emergency")

\* the handler's emergency feature: 30 - 60 h
EmergencyFeature == Feature(3000, 6000, "medium", FALSE, "emergency")

----------------------------------------------------------------------------
(* EstimationEngine *)

\* settings.BUFFER_PERCENTAGE (0.20), in tenths
BufferTenths == 2

\* an hourly rate of num / den dollars
Rate(num, den) == [num |-> num, den |-> den]

\* settings.DEFAULT_HOURLY_RATE and the handler's "hourly_rate or 30.0"
DefaultRate == Rate(30, 1)

\* the buffer taken off the base time instead of added to it
final_time_reduced(base) == base * (10 - BufferTenths)

\* final_time = base * (1 + buffer_percentage), in 1/1000 h
final_time(base) == base * (10 + BufferTenths)

\* apply_buffer of an engine whose buffer_percentage is tenths / 10: centi-hours
\* in, 1/1000 h out
apply_buffer(time_hours, tenths) == time_hours * (10 + tenths)

\* cost = final_time * hourly_rate, as the numerator of a fraction of cents
\* whose denominator is 10 * r.den
feature_cost(base, r) == final_time(base) * r.num

\* The double final_time * hourly_rate is computed from the unrounded double
\* base * 1.2.  Where its exact value is a decimal tie of round(x, 2), the
\* double lies on one side of the tie: for a rate of 21.375 and the base
\* hours 0.3, 0.5, 8.5, 11.5 (the ties among the hours reached here) the
\* IEEE-754 product lies below it, e.g. 11.5 * 1.2 = 13.799999999999999 and
\* 13.799999999999999 * 21.375 = 294.97499999999997.
cost_double_side(base, r) ==
    IF r = Rate(171, 8) /\ base \in {30, 50, 850, 1150} THEN -1 ELSE 0

\* the same for the double (cost_min + cost_max) / 2: for a rate of 21.375
\* and the hours 1 - 2 the exact value 38.475 is a tie and the double lies
\* below it
average_cost_double_side(mn, mx, r) ==
    IF r = Rate(171, 8) /\ mn = 100 /\ mx = 200 THEN -1 ELSE 0

\* round(x, 2) of a time in 1/1000 h, as centi-hours
Round2Time(t) == RoundHalfEven(t, 10)

\* round(cost, 2) for one bound of one feature, as cents
Round2Cost(base, r) ==
    RoundSide(feature_cost(base, r), 10 * r.den, cost_double_side(base, r))

\* complexity_multipliers, in tenths
complexity_multiplier(cx) ==
    IF cx = "simple" THEN 10 ELSE IF cx = "complex" THEN 18 ELSE 13

\* a breakdown line whose hours go through calculate_feature_time first
breakdown_line_multiplied(f, r) ==
    LET mn == (f.min * complexity_multiplier(f.cx)) \div 10
        mx == (f.max * complexity_multiplier(f.cx)) \div 10
    IN  [ time_hours |-> RoundHalfEven(final_time(mn) + final_time(mx), 20),
          cost       |-> RoundSide(feature_cost(mn, r) + feature_cost(mx, r),
                                   20 * r.den, average_cost_double_side(mn, mx, r)),
          complexity |-> f.cx,
          time_min   |-> Round2Time(final_time(mn)),
          time_max   |-> Round2Time(final_time(mx)),
          cost_min   |-> Round2Cost(mn, r),
          cost_max   |-> Round2Cost(mx, r) ]

breakdown_line(f, r) ==
    [ time_hours |-> RoundHalfEven(final_time(f.min) + final_time(f.max), 20),
      cost       |-> RoundSide(feature_cost(f.min, r) + feature_cost(f.max, r),
                               20 * r.den,
                               average_cost_double_side(f.min, f.max, r)),
      complexity |-> f.cx,
      time_min   |-> Round2Time(final_time(f.min)),
      time_max   |-> Round2Time(final_time(f.max)),
      cost_min   |-> Round2Cost(f.min, r),
      cost_max   |-> Round2Cost(f.max, r) ]

create_breakdown(fs, r) == [i \in 1..Len(fs) |-> breakdown_line(fs[i], r)]

\* round(x, 2) of a sum of centi-hours or of cents
Round2Sum(x) == RoundHalfEven(x, 1)

\* calculate_total reading the getattr defaults (time_hours * 0.9, ...)
\* in place of the stored min/max fields
calculate_total_defaults(bd) ==
    [ time_min |-> RoundHalfEven(SumSeq([i \in 1..Len(bd) |-> bd[i].time_hours * 9]), 10),
      time_max |-> RoundHalfEven(SumSeq([i \in 1..Len(bd) |-> bd[i].time_hours * 11]), 10),
      cost_min |-> RoundHalfEven(SumSeq([i \in 1..Len(bd) |-> bd[i].cost * 9]), 10),
      cost_max |-> RoundHalfEven(SumSeq([i \in 1..Len(bd) |-> bd[i].cost * 11]), 10) ]

calculate_total(bd) ==
    [ time_min |-> Round2Sum(SumSeq([i \in 1..Len(bd) |-> bd[i].time_min])),
      time_max |-> Round2Sum(SumSeq([i \in 1..Len(bd) |-> bd[i].time_max])),
      cost_min |-> Round2Sum(SumSeq([i \in 1..Len(bd) |-> bd[i].cost_min])),
      cost_max |-> Round2Sum(SumSeq([i \in 1..Len(bd) |-> bd[i].cost_max])) ]

NoTotals == [time_min |-> 0, time_max |-> 0, cost_min |-> 0, cost_max |-> 0]

\* an absent hourly_rate field (None), or one that is 0
NoRate == Rate(0, 1)

\* "hourly_rate or 30.0" in the handler, then the engine's constructor
\* "hourly_rate or settings.DEFAULT_HOURLY_RATE"
engine_rate(r) == IF r.num = 0 THEN DefaultRate ELSE r

\* hourly rates a caller may send: none, 45.50, 21.375
RateInputs == {NoRate, Rate(91, 2), Rate(171, 8)}

----------------------------------------------------------------------------
(* The pure pipeline: _normalize_features, create_breakdown, calculate_total *)

NormIdle ==
    /\ raw = <<>>
    /\ normres = [raised |-> FALSE, val |-> <<>>]
    /\ permTotals = NoTotals

EngineIdle ==
    /\ features = <<>>
    /\ rate = DefaultRate
    /\ breakdown = <<>>
    /\ totals = NoTotals

NoText == [present |-> FALSE, len |-> 0, ink |-> 0]
NoFile == [present |-> FALSE, name_len |-> 0, suffix |-> "", body |-> NoText]
NoRequest == [requirements |-> NoText, file |-> NoFile, hourly_rate |-> NoRate]
NoException == [kind |-> "none", status |-> 0, detail |-> "", ext |-> ""]
NoResponse == [status |-> 0, detail |-> "", ext |-> ""]
NoResult == [raised |-> FALSE, val |-> <<>>, stage |-> "none"]

RequestIdle ==
    /\ req = NoRequest
    /\ combined = NoText
    /\ context = "none"
    /\ ctxCalls = 0
    /\ attempt = 0
    /\ pending = NoException
    /\ resp = NoResponse
    /\ tmp = "none"

ExtractorIdle ==
    /\ exc = FALSE
    /\ calls = <<>>
    /\ classified = "unknown"
    /\ xres = NoResult
    /\ retrievals = 0
    /\ prompt = <<>>

NoMessage == [text |-> NoText, greeting |-> FALSE, estimation |-> FALSE]
NoEstimate == [present |-> FALSE, totals |-> NoTotals]
NoChat == [message |-> NoMessage, history |-> "empty", text |-> "none",
           llm_calls |-> 0, raised |-> FALSE, status |-> 0,
           estimate |-> NoEstimate, conversation_id |-> FALSE]

ChatIdle ==
    /\ via = "none"
    /\ chat = NoChat

NoNarrative == [breakdown |-> <<>>, total_time |-> 0, total_cost |-> 0,
                assumptions |-> 0, source |-> "none", llm_calls |-> 0,
                tokens |-> <<>>]
NoVerdict == [reply |-> "none", verdict |-> FALSE, llm_calls |-> 0]
NoBuffer == [time_hours |-> 0, tenths |-> 0, buffered |-> 0]

ServicesIdle ==
    /\ narr = NoNarrative
    /\ vq = NoVerdict
    /\ buf = NoBuffer

\* the startup event has set both singletons; no dependency call is running
SingletonsSet ==
    /\ knowledge_base = 1
    /\ openai_service = 1
    /\ built = 1
    /\ thr = <<>>

NoQuery == [max_length |-> 0, vector_store |-> "absent", documents |-> <<>>,
            query |-> {}, examples_len |-> 0]
NoContextResult == [len |-> 0, path |-> "none", sections |-> <<>>]

ContextIdle ==
    /\ cq = NoQuery
    /\ cres = NoContextResult

InitNorm ==
    /\ pc = "n_start"
    /\ raw \in RawLists
    /\ normres = [raised |-> FALSE, val |-> <<>>]
    /\ permTotals = NoTotals
    /\ EngineIdle
    /\ client = TRUE
    /\ estimates_txt = TRUE
    /\ RequestIdle
    /\ ExtractorIdle
    /\ ContextIdle
    /\ ChatIdle
    /\ ServicesIdle
    /\ SingletonsSet

NormalizeCall ==
    /\ pc = "n_start"
    /\ normres' = normalize_features(raw, "direct")
    /\ features' = normres'.val
    /\ pc' = IF normres'.raised THEN "n_raised" ELSE "n_normalized"
    /\ UNCHANGED <<raw, rate, breakdown, totals, permTotals, envVars, restVars, reqVars, xVars, ctxVars>>

BreakdownCall ==
    /\ pc = "n_normalized"
    /\ \E r \in RateInputs :
          /\ rate' = engine_rate(r)
          /\ breakdown' = create_breakdown(features, rate')
    /\ pc' = "n_breakdown"
    /\ UNCHANGED <<raw, normres, features, totals, permTotals, envVars, restVars, reqVars, xVars, ctxVars>>

TotalCall ==
    /\ pc = "n_breakdown"
    /\ totals' = calculate_total(breakdown)
    /\ pc' = "n_total"
    /\ UNCHANGED <<raw, normres, features, rate, breakdown, permTotals, envVars, restVars, reqVars, xVars, ctxVars>>

Orderings(n) ==
    { p \in [1..n -> 1..n] : \A i, j \in 1..n : p[i] = p[j] => i = j }

\* the totals are computed again from the same lines in another order
ReorderCall ==
    /\ pc = "n_total"
    /\ \E p \in Orderings(Len(breakdown)) :
          /\ breakdown' = [i \in 1..Len(breakdown) |-> breakdown[p[i]]]
          /\ permTotals' = calculate_total(breakdown')
    /\ pc' = "n_reordered"
    /\ UNCHANGED <<raw, normres, features, rate, totals, envVars, restVars, reqVars, xVars, ctxVars>>

\* hours handed to apply_buffer, and settings.BUFFER_PERCENTAGE in tenths
BufferHours == {0, 33, 1000, 6000}
BufferPercentages == {0, BufferTenths, 5}

\* EstimationEngine.apply_buffer called on its own
BufferCall ==
    /\ pc = "n_start"
    /\ \E h \in BufferHours, t \in BufferPercentages :
          buf' = [time_hours |-> h, tenths |-> t, buffered |-> apply_buffer(h, t)]
    /\ pc' = "b_done"
    /\ UNCHANGED <<normVars, engineVars, envVars, reqVars, xVars, ctxVars,
                   chatVars, narr, vq, depVars>>

\* a normalized feature read as an item again: it carries both
\* base_time_hours_min and base_time_hours_max (and every key it had before)
as_item(f) ==
    [shape |-> "both", min |-> f.min, max |-> f.max, base |-> 0, cx |-> f.cx,
     name |-> f.name]

\* _normalize_features called on its own output
RenormalizeCall ==
    /\ pc = "n_normalized"
    /\ normres' = normalize_features([i \in 1..Len(features) |-> as_item(features[i])],
                                      "direct")
    /\ pc' = "n_renormalized"
    /\ UNCHANGED <<raw, features, rate, breakdown, totals, permTotals, envVars,
                   restVars, reqVars, xVars, ctxVars>>

NextNorm ==
    \/ NormalizeCall
    \/ BreakdownCall
    \/ TotalCall
    \/ ReorderCall
    \/ BufferCall
    \/ RenormalizeCall

SpecNorm == InitNorm /\ [][NextNorm]_vars

----------------------------------------------------------------------------
(* POST /estimate: requests *)

\* a string, by its length and the number of its non-whitespace characters
Text(len, ink) == [present |-> TRUE, len |-> len, ink |-> ink]

\* s1 + s2
Concat(a, b) == Text(a.len + b.len, a.ink + b.ink)

\* an upload: the length of its file name, the suffix os.path.splitext gives,
\* and the text its extractor gets out of it
File(name_len, suffix, body) ==
    [present |-> TRUE, name_len |-> name_len, suffix |-> suffix, body |-> body]

\* str.lower() on the suffixes used here
Lower(suffix) ==
    IF suffix = ".DOCX" THEN ".docx"
    ELSE IF suffix = ".EXE" THEN ".exe"
    ELSE suffix

\* the suffixes the handler dispatches to an extractor
SupportedSuffixes == {".pdf", ".docx", ".doc", ".txt"}

RequirementInputs == { NoText, Text(3, 0), Text(24, 20) }

FileInputs ==
    { NoFile,
      File(8, ".pdf", Text(60, 50)),
      File(9, ".DOCX", Text(0, 0)),
      File(9, ".txt", Text(60, 50)),
      File(9, ".EXE", Text(0, 0)) }

Requests ==
    { [requirements |-> t, file |-> f, hourly_rate |-> r] :
        t \in RequirementInputs, f \in FileInputs, r \in RateInputs }

\* a Python object that is neither a string, a number nor an upload
Object(class) == [present |-> TRUE, len |-> 0, ink |-> 0, object |-> class]
IsObject(x) == "object" \in DOMAIN x

\* "if requirements:" and "if file:"; an object without __bool__ and __len__
\* is true
HasText(r) ==
    r.requirements.present /\ (IsObject(r.requirements) \/ r.requirements.len > 0)
HasFile(r) == r.file.present

\* "requirements + '\n\n'" raises TypeError unless requirements is a string
concat_raises(r) == HasText(r) /\ IsObject(r.requirements)

\* combined_requirements after "requirements + '\n\n'"
with_requirements(r) ==
    IF HasText(r) THEN Concat(r.requirements, Text(2, 0)) ELSE Text(0, 0)

\* combined_requirements += f"{file_text}\n\n", without the
\* "Content from {file.filename}:" label
with_file_unlabelled(c, f) == Concat(c, Concat(f.body, Text(2, 0)))

\* combined_requirements += f"Content from {file.filename}:\n{file_text}\n\n"
with_file(c, f) ==
    Concat(c, Concat(Text(15 + f.name_len, 12 + f.name_len),
                     Concat(f.body, Text(2, 0))))

\* "not combined_requirements.strip()"
is_blank(c) == c.ink = 0

HttpException(status, detail, ext) ==
    [kind |-> "http", status |-> status, detail |-> detail, ext |-> ext]

OtherException(detail) ==
    [kind |-> "error", status |-> 0, detail |-> detail, ext |-> ""]

Response(status, detail, ext) == [status |-> status, detail |-> detail, ext |-> ext]

\* an outer handler that turns every exception into a 500
outer_except_all(e) == Response(500, "Error generating estimate", "")

\* "except HTTPException: raise" and "except Exception: raise HTTPException(500)"
outer_except(e) ==
    IF e.kind = "http" THEN Response(e.status, e.detail, e.ext)
    ELSE Response(500, "Error generating estimate", "")

\* "hourly_rate or 30.0" in the handler
handler_rate(r) == IF r.num = 0 THEN Rate(30, 1) ELSE r

\* what kb.get_context_for_query can give: "none" the empty string, "thin" a
\* text of at most 500 characters holding no keyword of the query, "rich" any
\* other text; with Estimates.txt loaded the last resort is never empty
ContextKinds == IF estimates_txt THEN {"thin", "rich"} ELSE {"none", "thin", "rich"}

\* context_has_info of the extractor
context_has_info == context = "rich"

\* the retrieval made before the vague check instead of after it
context_retrievals_eager(vague) == 1

\* calls of knowledge_base.get_context_for_query the extractor has made when
\* it leaves the first vague check: none on "return []", one for
\* broader_context otherwise
context_retrievals(vague) == IF vague THEN 0 ELSE 1

Section(source, role) == [source |-> source, role |-> role]

\* context_parts with the Estimates.txt section left out when the retrieved
\* context has information
context_parts_context_only(has_info, est) ==
    IF has_info THEN << Section("retrieval", "primary") >>
    ELSE IF est THEN << Section("estimates_txt", "primary") >>
    ELSE <<>>

\* context_parts: the retrieved context first (if it has information), then
\* Estimates.txt under one of its two labels
context_parts(has_info, est) ==
    (IF has_info THEN << Section("retrieval", "primary") >> ELSE <<>>)
    \o (IF est
        THEN << Section("estimates_txt",
                        IF has_info THEN "reference" ELSE "primary") >>
        ELSE <<>>)

\* "not combined_context" of the extractor
combined_context_empty == ~estimates_txt /\ ~context_has_info

----------------------------------------------------------------------------
(* POST /estimate: the handler create_estimate *)

Init ==
    /\ pc = "idle"
    /\ client \in BOOLEAN
    /\ estimates_txt \in BOOLEAN
    /\ NormIdle
    /\ EngineIdle
    /\ RequestIdle
    /\ ExtractorIdle
    /\ ContextIdle
    /\ ChatIdle
    /\ ServicesIdle
    /\ SingletonsSet

\* a request arrives; "if requirements:" builds the first part of
\* combined_requirements
Receive ==
    /\ pc = "idle"
    /\ req' \in Requests
    /\ via' = "estimate"
    /\ combined' = with_requirements(req')
    /\ pc' = "h_upload"
    /\ UNCHANGED <<context, ctxCalls, attempt, pending, resp, tmp, chat>>
    /\ UNCHANGED <<normVars, ctxVars, engineVars, envVars, svcVars, depVars, xVars>>

\* how the try block after the upload was written can end: with the text of
\* the file, with the HTTPException for an unsupported suffix, or with an
\* exception of the text extractor
TryOutcomes == {"ok", "http", "error"}

\* a clean-up placed at the end of the try block instead of in "finally"
cleanup_at_end(outcome) == IF outcome = "ok" THEN "removed" ELSE "exists"

\* "finally: if os.path.exists(tmp_path): os.unlink(tmp_path)"
cleanup(outcome) == "removed"

\* "if file:" down to the end of the "with NamedTemporaryFile(delete=False)"
\* block: the upload is written to the temporary file
ReadUpload ==
    /\ pc = "h_upload"
    /\ IF ~HasFile(req)
       THEN /\ pc' = "h_check"
            /\ UNCHANGED tmp
       ELSE /\ tmp' = "exists"
            /\ pc' = "h_extract"
    /\ UNCHANGED <<req, combined, context, ctxCalls, attempt, pending, resp>>
    /\ UNCHANGED <<normVars, ctxVars, engineVars, envVars, restVars, xVars>>

\* the try/finally after it: the extractor for the suffix (the extractors
\* catch their own exceptions and return the text they have), or the 400
ExtractUpload ==
    /\ pc = "h_extract"
    /\ IF Lower(req.file.suffix) \in SupportedSuffixes
       THEN /\ combined' = with_file(combined, req.file)
            /\ tmp' = cleanup("ok")
            /\ pc' = "h_check"
            /\ UNCHANGED pending
       ELSE /\ pending' = HttpException(400, "Unsupported file type",
                                        Lower(req.file.suffix))
            /\ tmp' = cleanup("http")
            /\ pc' = "h_except"
            /\ UNCHANGED combined
    /\ UNCHANGED <<req, context, ctxCalls, attempt, resp>>
    /\ UNCHANGED <<normVars, ctxVars, engineVars, envVars, restVars, xVars>>

CheckBlank ==
    /\ pc = "h_check"
    /\ IF is_blank(combined)
       THEN /\ pending' = HttpException(400, "Please provide requirements or a file", "")
            /\ pc' = "h_except"
       ELSE /\ pc' = "h_context"
            /\ UNCHANGED pending
    /\ UNCHANGED <<req, combined, context, ctxCalls, attempt, resp, tmp>>
    /\ UNCHANGED <<normVars, ctxVars, engineVars, envVars, restVars, xVars>>

\* kb.get_context_for_query(combined_requirements, max_length), then the
\* entry of extract_features_from_query
GetContext ==
    /\ pc = "h_context"
    /\ IF attempt = 0
       THEN context' \in ContextKinds
       ELSE context' = context
    /\ ctxCalls' = ctxCalls + 1
    /\ attempt' = attempt + 1
    /\ exc' = FALSE
    /\ calls' = <<>>
    /\ classified' = "unknown"
    /\ xres' = NoResult
    /\ retrievals' = 0
    /\ prompt' = <<>>
    /\ pc' = "x_start"
    /\ UNCHANGED <<req, combined, pending, resp, tmp>>
    /\ UNCHANGED <<normVars, ctxVars, engineVars, envVars, restVars>>

\* "if not features:" with the retry and the emergency feature
AfterExtract ==
    /\ pc = "x_done"
    /\ IF xres.raised
       THEN /\ pending' = OtherException("extractor")
            /\ pc' = "h_except"
            /\ UNCHANGED features
       ELSE IF xres.val # <<>>
       THEN /\ features' = xres.val
            /\ pc' = "h_engine"
            /\ UNCHANGED pending
       ELSE IF attempt = 1
       THEN /\ pc' = "h_context"
            /\ UNCHANGED <<features, pending>>
       ELSE /\ features' = << EmergencyFeature >>
            /\ pc' = "h_engine"
            /\ UNCHANGED pending
    /\ UNCHANGED <<req, combined, context, ctxCalls, attempt, resp, tmp>>
    /\ UNCHANGED <<normVars, ctxVars, rate, breakdown, totals, envVars, restVars, xVars>>

\* the engine: create_breakdown (FeatureBreakdown refuses a name that is not
\* a string), calculate_total, the response
Reconcile ==
    /\ pc = "h_engine"
    /\ rate' = engine_rate(handler_rate(req.hourly_rate))
    /\ IF \E i \in 1..Len(features) : ~features[i].name
       THEN /\ pending' = OtherException("validation")
            /\ pc' = "h_except"
            /\ UNCHANGED <<breakdown, totals, resp>>
       ELSE /\ breakdown' = create_breakdown(features, rate')
            /\ totals' = calculate_total(breakdown')
            /\ resp' = Response(200, "ok", "")
            /\ pc' = "done"
            /\ UNCHANGED pending
    /\ UNCHANGED <<req, combined, context, ctxCalls, attempt, features, tmp>>
    /\ UNCHANGED <<normVars, ctxVars, envVars, restVars, xVars>>

OuterExcept ==
    /\ pc = "h_except"
    /\ resp' = outer_except(pending)
    /\ pc' = "done"
    /\ UNCHANGED <<req, combined, context, ctxCalls, attempt, pending, tmp>>
    /\ UNCHANGED <<normVars, ctxVars, engineVars, envVars, restVars, xVars>>

----------------------------------------------------------------------------
(* OpenAIService.extract_features_from_query, one LLM call per action *)

\* the call returns val
XReturn(val, stage) ==
    /\ xres' = [raised |-> FALSE, val |-> val, stage |-> stage]
    /\ pc' = "x_done"

\* an exception handler that runs the primary extraction call again
XRaise_retry(stage) ==
    IF exc
    THEN /\ xres' = [raised |-> TRUE, val |-> <<>>, stage |-> stage]
         /\ pc' = "x_done"
         /\ UNCHANGED exc
    ELSE /\ exc' = TRUE
         /\ pc' = "x_primary"
         /\ UNCHANGED xres

\* an exception leaves a stage: inside the try body it enters the handler
\* "except Exception", which starts with the key lookup; inside that handler
\* it leaves extract_features_from_query
XRaise(stage) ==
    IF exc
    THEN /\ xres' = [raised |-> TRUE, val |-> <<>>, stage |-> stage]
         /\ pc' = "x_done"
         /\ UNCHANGED exc
    ELSE /\ exc' = TRUE
         /\ pc' = "x_key"
         /\ UNCHANGED xres

XOuter == UNCHANGED <<normVars, ctxVars, engineVars, envVars, restVars, reqVars>>

XFrame == XOuter /\ UNCHANGED <<retrievals, prompt>>

\* "if not self.client: return []"
NoClient ==
    /\ pc = "x_start"
    /\ ~client
    /\ XReturn(<<>>, "no_client")
    /\ UNCHANGED <<exc, calls, classified>>
    /\ XFrame

\* the first _is_query_vague_or_irrelevant, then the retrieval of
\* broader_context and the assembly of combined_context
VagueCheck ==
    /\ pc = "x_start"
    /\ client
    /\ calls' = Append(calls, "vague")
    /\ \E reply \in LlmReplies :
          IF is_query_vague_or_irrelevant(reply)
          THEN /\ classified' = "vague"
               /\ XReturn(<<>>, "vague")
               /\ retrievals' = retrievals + context_retrievals(TRUE)
               /\ UNCHANGED prompt
          ELSE /\ classified' = "actionable"
               /\ retrievals' = retrievals + context_retrievals(FALSE)
               /\ prompt' = context_parts(context_has_info, estimates_txt)
               /\ pc' = IF combined_context_empty THEN "x_noctx" ELSE "x_primary"
               /\ UNCHANGED xres
    /\ UNCHANGED exc
    /\ XOuter

\* "if not combined_context:": a second vague check, and [] either way
NoContext ==
    /\ pc = "x_noctx"
    /\ calls' = Append(calls, "vague")
    /\ \E reply \in LlmReplies :
          IF is_query_vague_or_irrelevant(reply)
          THEN XReturn(<<>>, "no_context_vague")
          ELSE XReturn(<<>>, "no_context")
    /\ UNCHANGED <<exc, classified>>
    /\ XFrame

\* the primary extraction call and its parsing strategies
PrimaryCall ==
    /\ pc = "x_primary"
    /\ calls' = Append(calls, "primary")
    /\ \E reply \in LlmReplies :
          LET res == primary_parse(reply)
          IN  IF res.raised THEN XRaise(res.stage)
              ELSE IF res.ret
              THEN XReturn(res.val, res.stage) /\ UNCHANGED exc
              ELSE /\ pc' = "x_key"
                   /\ UNCHANGED <<exc, xres>>
    /\ UNCHANGED classified
    /\ XFrame

\* _extract_from_estimates_txt(query, combined_context)
KeyLookup ==
    /\ pc = "x_key"
    /\ calls' = Append(calls, "key")
    /\ \E reply \in LlmReplies :
          LET match == extract_from_estimates_txt(reply, "key")
          IN  IF match # <<>>
              THEN XReturn(match, "key")
              ELSE /\ pc' = IF estimates_txt THEN "x_direct" ELSE "x_fb_key"
                   /\ UNCHANGED xres
    /\ UNCHANGED <<exc, classified>>
    /\ XFrame

\* "if estimates_txt:" _extract_from_estimates_txt_direct(query, estimates_txt)
DirectLookup ==
    /\ pc = "x_direct"
    /\ calls' = Append(calls, "direct")
    /\ \E reply \in LlmReplies :
          LET match == extract_from_estimates_txt(reply, "key_direct")
          IN  IF match # <<>>
              THEN XReturn(match, "key_direct")
              ELSE /\ pc' = "x_fb_key"
                   /\ UNCHANGED xres
    /\ UNCHANGED <<exc, classified>>
    /\ XFrame

\* _fallback_feature_extraction, first half: the key lookup once more
FallbackKey ==
    /\ pc = "x_fb_key"
    /\ calls' = Append(calls, "fallback_key")
    /\ \E reply \in LlmReplies :
          LET match == extract_from_estimates_txt(reply, "fallback_key")
          IN  IF match # <<>>
              THEN XReturn(match, "fallback_key")
              ELSE /\ pc' = "x_fb_query"
                   /\ UNCHANGED xres
    /\ UNCHANGED <<exc, classified>>
    /\ XFrame

\* _fallback_feature_extraction, second half: the re-query
FallbackQuery ==
    /\ pc = "x_fb_query"
    /\ calls' = Append(calls, "fallback")
    /\ \E reply \in LlmReplies :
          LET res == fallback_query(reply)
          IN  IF res.raised THEN XRaise(res.stage)
              ELSE IF res.val # <<>>
              THEN XReturn(res.val, res.stage) /\ UNCHANGED exc
              ELSE /\ pc' = "x_know"
                   /\ UNCHANGED <<exc, xres>>
    /\ UNCHANGED classified
    /\ XFrame

\* _generate_estimate_from_knowledge, then the hard-coded estimate of the
\* try body, or the last vague check of the handler
KnowledgeCall ==
    /\ pc = "x_know"
    /\ calls' = Append(calls, "knowledge")
    /\ \E reply \in LlmReplies :
          LET final_fallback == generate_estimate_from_knowledge(reply)
          IN  IF final_fallback # <<>>
              THEN XReturn(final_fallback, final_fallback[1].stage)
              ELSE IF exc
              THEN /\ pc' = "x_vague_final"
                   /\ UNCHANGED xres
              ELSE XReturn(HardCodedEstimate, "hardcoded")
    /\ UNCHANGED <<exc, classified>>
    /\ XFrame

\* the handler's "before returning basic estimate" vague check
FinalVagueCheck ==
    /\ pc = "x_vague_final"
    /\ calls' = Append(calls, "vague")
    /\ \E reply \in LlmReplies :
          IF is_query_vague_or_irrelevant(reply)
          THEN XReturn(<<>>, "vague_final")
          ELSE XReturn(HardCodedEstimate, "hardcoded")
    /\ UNCHANGED <<exc, classified>>
    /\ XFrame

----------------------------------------------------------------------------
(* POST /chat: the handler chat and OpenAIService.chat *)

\* ChatRequest.message: its text, whether it holds a greeting keyword in fewer
\* than five words, whether it holds an estimation keyword
Message(text, greeting, estimation) ==
    [text |-> text, greeting |-> greeting, estimation |-> estimation]

MessageInputs ==
    { Message(Text(5, 5), TRUE, FALSE),
      Message(Text(19, 16), FALSE, FALSE),
      Message(Text(24, 20), FALSE, TRUE),
      Message(Text(17, 15), TRUE, TRUE) }

\* ChatRequest.conversation_history is Optional: null, [] or messages
HistoryInputs == {"null", "empty", "some"}

ChatReplies == { Reply("error", <<>>, 0, 0), Reply("prose", <<>>, 0, 0) }

\* OpenAIService.chat: the text it returns and the LLM calls it made
chat_text(has_client, message, history, reply) ==
    IF ~has_client THEN [text |-> "not_configured", llm_calls |-> 0]
    ELSE IF message.greeting THEN [text |-> "greeting", llm_calls |-> 0]
    ELSE IF ~message.estimation /\ history = "empty"
    THEN [text |-> "redirect", llm_calls |-> 0]
    ELSE IF reply.kind = "error" THEN [text |-> "apology", llm_calls |-> 1]
    ELSE [text |-> "llm", llm_calls |-> 1]

\* create_estimate(estimate_req, get_knowledge_base(), openai_service): the
\* three positional arguments bind to requirements, hourly_rate and file
chat_arguments(message) ==
    [requirements |-> Object("EstimateRequest"),
     hourly_rate |-> Object("KnowledgeBase"),
     file |-> Object("OpenAIService")]

\* the estimate attempt without its try/except: a failure of create_estimate
\* leaves the handler's try body
chat_inner_unguarded(r) ==
    [raised |-> r.status # 200,
     estimate |-> IF r.status = 200
                  THEN [present |-> TRUE, totals |-> totals] ELSE NoEstimate]

\* "estimate = None; try: ... estimate = estimate_response; except Exception:"
chat_inner_except(r) ==
    [raised |-> FALSE,
     estimate |-> IF r.status = 200
                  THEN [present |-> TRUE, totals |-> totals] ELSE NoEstimate]

ChatFrame == UNCHANGED <<normVars, ctxVars, engineVars, envVars, svcVars, depVars, xVars>>

\* a chat request arrives; the loop over request.conversation_history
ChatReceive ==
    /\ pc = "idle"
    /\ via' = "chat"
    /\ \E m \in MessageInputs, h \in HistoryInputs :
          /\ chat' = [NoChat EXCEPT !.message = m, !.history = h,
                                    !.raised = (h = "null")]
          /\ pc' = IF h = "null" THEN "k_except" ELSE "k_text"
    /\ UNCHANGED reqVars
    /\ ChatFrame

\* response_text = openai_service.chat(request.message, history)
ChatText ==
    /\ pc = "k_text"
    /\ \E reply \in ChatReplies :
          LET out == chat_text(client, chat.message, chat.history, reply)
          IN  chat' = [chat EXCEPT !.text = out.text, !.llm_calls = out.llm_calls]
    /\ pc' = "k_estimate"
    /\ UNCHANGED <<via, reqVars>>
    /\ ChatFrame

\* the call of create_estimate from inside chat, down to "if requirements:"
ChatEstimate ==
    /\ pc = "k_estimate"
    /\ req' = chat_arguments(chat.message)
    /\ IF concat_raises(req')
       THEN /\ combined' = Text(0, 0)
            /\ pending' = OtherException("type_error")
            /\ pc' = "h_except"
       ELSE /\ combined' = with_requirements(req')
            /\ pc' = "h_upload"
            /\ UNCHANGED pending
    /\ UNCHANGED <<context, ctxCalls, attempt, resp, tmp, via, chat>>
    /\ ChatFrame

\* create_estimate is back in chat: the inner except, then ChatResponse
ChatRespond ==
    /\ pc = "done"
    /\ via = "chat"
    /\ LET out == chat_inner_except(resp)
       IN  IF out.raised
           THEN /\ chat' = [chat EXCEPT !.raised = TRUE]
                /\ pc' = "k_except"
           ELSE /\ chat' = [chat EXCEPT !.status = 200,
                                        !.estimate = out.estimate,
                                        !.conversation_id = TRUE]
                /\ pc' = "k_done"
    /\ UNCHANGED <<via, reqVars>>
    /\ ChatFrame

\* the outer "except Exception" of chat: HTTPException(500)
ChatExcept ==
    /\ pc = "k_except"
    /\ chat' = [chat EXCEPT !.status = 500, !.text = "none"]
    /\ pc' = "k_done"
    /\ UNCHANGED <<via, reqVars>>
    /\ ChatFrame

\* the response is sent; the handler's locals are gone, the services stay
SendResponse ==
    /\ pc = "k_done" \/ (pc = "done" /\ via = "estimate")
    /\ pc' = "idle"
    /\ features' = <<>>
    /\ rate' = DefaultRate
    /\ breakdown' = <<>>
    /\ totals' = NoTotals
    /\ req' = NoRequest
    /\ combined' = NoText
    /\ context' = "none"
    /\ ctxCalls' = 0
    /\ attempt' = 0
    /\ pending' = NoException
    /\ resp' = NoResponse
    /\ tmp' = "none"
    /\ exc' = FALSE
    /\ calls' = <<>>
    /\ classified' = "unknown"
    /\ xres' = NoResult
    /\ retrievals' = 0
    /\ prompt' = <<>>
    /\ via' = "none"
    /\ chat' = NoChat
    /\ UNCHANGED <<normVars, ctxVars, envVars, svcVars, depVars>>

Next ==
    \/ Receive
    \/ ChatReceive
    \/ ChatText
    \/ ChatEstimate
    \/ ChatRespond
    \/ ChatExcept
    \/ ReadUpload
    \/ ExtractUpload
    \/ CheckBlank
    \/ GetContext
    \/ NoClient
    \/ VagueCheck
    \/ NoContext
    \/ PrimaryCall
    \/ KeyLookup
    \/ DirectLookup
    \/ FallbackKey
    \/ FallbackQuery
    \/ KnowledgeCall
    \/ FinalVagueCheck
    \/ AfterExtract
    \/ Reconcile
    \/ OuterExcept
    \/ SendResponse

Spec == Init /\ [][Next]_vars

----------------------------------------------------------------------------
(* Properties of the pure pipeline *)

\* C3: every feature estimate produced by _normalize_features satisfies
\* 0 <= min <= max <= 1.5 * min, whatever the shape of the raw item.
C3_NormalizedRange ==
    pc = "n_normalized" =>
        \A i \in 1..Len(features) :
            /\ 0 <= features[i].min
            /\ features[i].min <= features[i].max
            /\ 2 * features[i].max <= 3 * features[i].min

\* the sum of one field over a set of line indexes, in no particular order
RECURSIVE FieldSum(_, _, _)
FieldSum(bd, idx, field) ==
    IF idx = {} THEN 0
    ELSE LET i == CHOOSE k \in idx : TRUE
         IN  bd[i][field] + FieldSum(bd, idx \ {i}, field)

ElementwiseSum(bd) ==
    [ time_min |-> FieldSum(bd, DOMAIN bd, "time_min"),
      time_max |-> FieldSum(bd, DOMAIN bd, "time_max"),
      cost_min |-> FieldSum(bd, DOMAIN bd, "cost_min"),
      cost_max |-> FieldSum(bd, DOMAIN bd, "cost_max") ]

\* C8: calculate_total returns exactly the sum of each min/max field over
\* the breakdown lines, and the same tuple when the lines are summed again
\* in any other order.
C8_TotalsAreSums ==
    /\ pc \in {"n_total", "n_reordered"} => totals = ElementwiseSum(breakdown)
    /\ pc = "n_reordered" => permTotals = totals

\* two different lines were summed, then summed again in the other order
C8_Witness ==
    /\ pc = "n_reordered"
    /\ Len(breakdown) >= 2
    /\ breakdown[1] # breakdown[2]
    /\ breakdown # create_breakdown(features, rate)
    /\ totals.time_min > 0
    /\ totals.cost_min > 0

\* the double time * hourly_rate formed from a stored, already rounded time:
\* the side of an exact decimal tie of round(x, 2) it lies on.  For a rate of
\* 21.375 the stored times 0.36, 0.6 and 10.2 give a double below the tie,
\* and 13.8 gives 294.97500000000002, above it.
stored_double_side(t, r) ==
    IF r = Rate(171, 8) /\ t \in {36, 60, 1020} THEN -1
    ELSE IF r = Rate(171, 8) /\ t = 1380 THEN 1
    ELSE 0

\* round(time * hourly_rate, 2) from a stored time in centi-hours, as cents
cost_of_stored_time(t, r) == RoundSide(t * r.num, r.den, stored_double_side(t, r))

\* C7: on every breakdown line, cost_min = round(time_min * hourly_rate, 2)
\* and cost_max = round(time_max * hourly_rate, 2), computed from the time_min
\* and time_max stored on that line.
C7_CostFromStoredTime ==
    pc \in {"n_breakdown", "n_total"} =>
        \A i \in 1..Len(breakdown) :
            /\ breakdown[i].cost_min = cost_of_stored_time(breakdown[i].time_min, rate)
            /\ breakdown[i].cost_max = cost_of_stored_time(breakdown[i].time_max, rate)

----------------------------------------------------------------------------
(* KnowledgeBase.get_context_for_query and VectorStore.get_relevant_context *)

\* most documents the knowledge base holds
MaxDocs == 2

\* doc_scores[:8]
TopDocs == 8

\* words of queries and documents, with their lengths
Words == {"payment", "team", "to"}

WordLen(w) == IF w = "payment" THEN 7 ELSE IF w = "team" THEN 4 ELSE 2

\* the terms whose presence in query and document adds 2 to the score
PriorityTerms == {"team", "developer", "estimate"}

\* a document: the length of its id, the length of its text, the words in it
Doc(id_len, len, words) == [id_len |-> id_len, len |-> len, words |-> words]

DocInputs ==
    { Doc(12, 200, {"payment"}),
      Doc(8, 9000, {"payment", "team"}),
      Doc(10, 2900, {"to"}),
      Doc(9, 5, {"team"}) }

\* a knowledge base of more than TopDocs short documents (too short to be
\* indexed), every one of them matching a query for "payment" or "team"
ManyDocs ==
    [ i \in 1..(TopDocs + 1) |->
        Doc(i, 9, IF i % 3 = 0 THEN {"payment", "team"}
                  ELSE IF i % 3 = 1 THEN {"payment"} ELSE {"team"}) ]

QueryInputs == { {"payment"}, {"team", "to"}, {"payment", "team"} }

MaxLengthInputs == {3000, 4000, 5000, 6000}

MinOf(a, b) == IF a <= b THEN a ELSE b

\* len('\n\n---\n\n'.join(parts)) and len('\n\n'.join(parts))
joined_len(parts, sep) ==
    IF parts = <<>> THEN 0 ELSE SumSeq(parts) + sep * (Len(parts) - 1)

\* the payload text of an indexed document: text[:5000]
payload_len(doc) == MinOf(doc.len, 5000)

\* len(f"[Doc: {doc_id} | Relevance: {score:.2f}]\n"), the score below 10
vector_label_len(doc) == 26 + doc.id_len

\* the loop of get_relevant_context: the lengths of context_parts
RECURSIVE vector_parts(_, _, _)
vector_parts(results, current_length, max_length) ==
    IF results = <<>> THEN <<>>
    ELSE LET doc == Head(results)
             remaining == max_length - current_length
         IN  IF current_length + payload_len(doc) <= max_length
             THEN << vector_label_len(doc) + payload_len(doc) >>
                  \o vector_parts(Tail(results), current_length + payload_len(doc),
                                  max_length)
             ELSE IF remaining > 300
             THEN << vector_label_len(doc) + remaining >>
             ELSE <<>>

\* VectorStore.get_relevant_context: the length of the string it returns
get_relevant_context(results, max_length) ==
    joined_len(vector_parts(results, 0, max_length), 7)

\* the score of one document in the keyword fallback
keyword_score(doc, query) ==
    Cardinality({w \in query : WordLen(w) > 2 /\ w \in doc.words})
    + 2 * Cardinality({t \in PriorityTerms : t \in query /\ t \in doc.words})

\* doc_scores: the documents with a positive score, in dictionary order
RECURSIVE doc_scores(_, _)
doc_scores(documents, query) ==
    IF documents = <<>> THEN <<>>
    ELSE IF keyword_score(Head(documents), query) > 0
    THEN << Head(documents) >> \o doc_scores(Tail(documents), query)
    ELSE doc_scores(Tail(documents), query)

\* list.sort(reverse=True, key=score): descending, equal scores keep their order
RECURSIVE insert_by_score(_, _, _)
insert_by_score(doc, sorted, query) ==
    IF sorted = <<>> THEN << doc >>
    ELSE IF keyword_score(doc, query) > keyword_score(Head(sorted), query)
    THEN << doc >> \o sorted
    ELSE << Head(sorted) >> \o insert_by_score(doc, Tail(sorted), query)

\* a sort that leaves doc_scores in dictionary order
sort_by_score_unsorted(scored, query) == scored

RECURSIVE sort_by_score(_, _)
sort_by_score(scored, query) ==
    IF scored = <<>> THEN <<>>
    ELSE insert_by_score(scored[Len(scored)],
                         sort_by_score(SubSeq(scored, 1, Len(scored) - 1), query),
                         query)

\* len(f"=== From {doc_id} ===\n{text[:3000]}")
keyword_part_len(doc) == 14 + doc.id_len + MinOf(doc.len, 3000)

\* the loop over doc_scores[:8]: append, then break once the joined parts
\* are longer than max_length
RECURSIVE keyword_parts(_, _, _)
keyword_parts(ranked, parts, max_length) ==
    IF ranked = <<>> THEN parts
    ELSE LET more == Append(parts, keyword_part_len(Head(ranked)))
         IN  IF joined_len(more, 2) > max_length THEN more
             ELSE keyword_parts(Tail(ranked), more, max_length)

\* a keyword fallback that finds nothing
keyword_context_skipped(documents, query, max_length) == 0

\* the keyword fallback: the length of '\n\n'.join(relevant_parts)[:max_length]
keyword_context(documents, query, max_length) ==
    LET ranked == sort_by_score(doc_scores(documents, query), query)
        parts == keyword_parts(SubSeq(ranked, 1, MinOf(TopDocs, Len(ranked))), <<>>,
                               max_length)
    IN  MinOf(joined_len(parts, 2), max_length)

\* relevant_parts, section by section: the document, its score, and the
\* number of characters text[:3000] takes from it
keyword_sections(documents, query, max_length) ==
    LET ranked == sort_by_score(doc_scores(documents, query), query)
        parts == keyword_parts(SubSeq(ranked, 1, MinOf(TopDocs, Len(ranked))), <<>>,
                               max_length)
    IN  [ i \in 1..Len(parts) |->
            [ doc |-> ranked[i], score |-> keyword_score(ranked[i], query),
              chars |-> MinOf(ranked[i].len, 3000) ] ]

\* the last resort: chatgpt_examples[:max_length]
examples_context(examples_len, max_length) == MinOf(examples_len, max_length)

\* the documents add_documents indexed: those with at least 10 characters
indexed(documents) == SelectSeq(documents, LAMBDA d : d.len >= 10)

InitCtx ==
    /\ pc = "c_start"
    /\ cq \in { [max_length |-> m, vector_store |-> v, documents |-> d,
                 query |-> q, examples_len |-> e] :
                  m \in MaxLengthInputs, v \in {"absent", "failing", "ok"},
                  d \in SeqsUpTo(DocInputs, MaxDocs) \cup {ManyDocs}, q \in QueryInputs,
                  e \in {0, 8000} }
    /\ cres = NoContextResult
    /\ NormIdle
    /\ EngineIdle
    /\ client = TRUE
    /\ estimates_txt = (cq.examples_len > 0)
    /\ RequestIdle
    /\ ExtractorIdle
    /\ ChatIdle
    /\ ServicesIdle
    /\ SingletonsSet

CtxFrame == UNCHANGED <<cq, normVars, engineVars, envVars, restVars, reqVars, xVars>>

\* "if self.vector_store:": the search returns the indexed documents in the
\* order of their similarity, or nothing when it fails
VectorContext ==
    /\ pc = "c_start"
    /\ IF cq.vector_store = "absent"
       THEN /\ pc' = "c_keyword"
            /\ UNCHANGED cres
       ELSE \E p \in Orderings(Len(indexed(cq.documents))) :
              LET found == indexed(cq.documents)
                  results == IF cq.vector_store = "failing" THEN <<>>
                             ELSE [i \in 1..Len(found) |-> found[p[i]]]
                  n == get_relevant_context(results, cq.max_length)
              IN  IF n > 0
                  THEN /\ cres' = [len |-> n, path |-> "vector", sections |-> <<>>]
                       /\ pc' = "c_done"
                  ELSE /\ pc' = "c_keyword"
                       /\ UNCHANGED cres
    /\ CtxFrame

\* the keyword fallback over the cached documents
KeywordContext ==
    /\ pc = "c_keyword"
    /\ LET n == keyword_context(cq.documents, cq.query, cq.max_length)
       IN  IF n > 0
           THEN /\ cres' = [len |-> n, path |-> "keyword",
                         sections |-> keyword_sections(cq.documents, cq.query,
                                                       cq.max_length)]
                /\ pc' = "c_done"
           ELSE /\ pc' = "c_examples"
                /\ UNCHANGED cres
    /\ CtxFrame

\* the last resort
ExamplesContext ==
    /\ pc = "c_examples"
    /\ cres' = [len |-> examples_context(cq.examples_len, cq.max_length),
                path |-> "examples", sections |-> <<>>]
    /\ pc' = "c_done"
    /\ CtxFrame

NextCtx == VectorContext \/ KeywordContext \/ ExamplesContext

SpecCtx == InitCtx /\ [][NextCtx]_vars

\* C5: get_context_for_query(query, max_length) never returns a string longer
\* than max_length, on the semantic index path (labels and separators
\* included), the keyword fallback and the last resort.
C5_ContextWithinBudget ==
    pc = "c_done" => cres.len <= cq.max_length

----------------------------------------------------------------------------
(* Properties of the estimate extractor *)

\* C1: extract_features_from_query never lets an exception reach its caller:
\* whatever the LLM does at each call (transport error, prose, truncated
\* JSON, JSON of another shape, hours that are not numbers), a call that has
\* ended has ended by returning a list.
C1_ExtractorNeverRaises ==
    /\ pc = "x_done" => ~xres.raised
    /\ pending.detail # "extractor"

\* the primary call raised, the handler ran every fallback stage, each of
\* which gave nothing, and the call still returned
C1_Witness ==
    /\ pc = "x_done"
    /\ exc
    /\ calls = <<"vague", "primary", "key", "direct", "fallback_key",
                 "fallback", "knowledge", "vague">>
    /\ xres.stage = "hardcoded"
    /\ ~xres.raised

\* C2: with a client configured and the query classified actionable, the
\* list extract_features_from_query returns is never empty, whatever the LLM
\* returns at the primary extraction and at every fallback stage.
C2_EmptyOnlyWhenVague ==
    (pc = "x_done" /\ client /\ classified = "actionable" /\ ~xres.raised)
        => xres.val # <<>>

\* C4: every feature estimate extract_features_from_query returns has been
\* through _normalize_features, whichever cascade stage produced it.
C4_ReturnedNormalized ==
    pc = "x_done" => \A i \in 1..Len(xres.val) : xres.val[i].norm

----------------------------------------------------------------------------
(* Properties of POST /estimate *)

\* C6: for every feature list the handler passes to create_breakdown and
\* calculate_total, total_time_min <= total_time_max, total_cost_min <=
\* total_cost_max, and the four totals are >= 0.
C6_TotalsOrdered ==
    (pc = "done" /\ resp.status = 200) =>
        /\ totals.time_min <= totals.time_max
        /\ totals.cost_min <= totals.cost_max
        /\ totals.time_min >= 0
        /\ totals.time_max >= 0
        /\ totals.cost_min >= 0
        /\ totals.cost_max >= 0

\* neither requirements text nor an upload
NoInput(r) == ~HasText(r) /\ ~HasFile(r)

\* non-blank text only, a supported file only, or both
AcceptableInput(r) ==
    \/ HasFile(r) /\ Lower(r.file.suffix) \in SupportedSuffixes
    \/ ~HasFile(r) /\ HasText(r) /\ r.requirements.ink > 0

\* C9: a POST /estimate request with neither requirements text nor a file is answered 400
\* before any context retrieval and any LLM call; a request with non-blank
\* text only, a supported file only, or both is not rejected and reaches
\* feature extraction.
C9_InputGate ==
    /\ (via = "estimate" /\ NoInput(req)) =>
          /\ ctxCalls = 0
          /\ attempt = 0
          /\ calls = <<>>
          /\ pc = "done" => resp = Response(400, "Please provide requirements or a file", "")
    /\ (via = "estimate" /\ pc = "done" /\ AcceptableInput(req)) =>
          /\ resp.status # 400
          /\ ctxCalls >= 1
          /\ attempt >= 1

\* a request with neither text nor file has been answered 400
C9_Witness ==
    /\ via = "estimate"
    /\ pc = "done"
    /\ NoInput(req)
    /\ client
    /\ resp.status = 400
    /\ ctxCalls = 0

UnsupportedUpload(r) ==
    HasFile(r) /\ Lower(r.file.suffix) \notin SupportedSuffixes

\* C10: an upload whose extension is outside {.pdf, .docx, .doc, .txt} is
\* answered 400 with a message naming that extension, with or without
\* requirements text, and the outer exception handling never turns this into
\* a 500.
C10_UnsupportedIs400 ==
    (via = "estimate" /\ pc = "done" /\ UnsupportedUpload(req)) =>
        resp = Response(400, "Unsupported file type", Lower(req.file.suffix))

\* an .EXE upload sent along with requirements text has been answered 400
C10_Witness ==
    /\ via = "estimate"
    /\ pc = "done"
    /\ UnsupportedUpload(req)
    /\ HasText(req)
    /\ req.requirements.ink > 0
    /\ resp.status = 400
    /\ resp.ext = ".exe"

----------------------------------------------------------------------------
(* Properties of POST /chat *)

\* C12: a failure of the estimate attempt inside POST /chat (any exception or
\* HTTP error of create_estimate) never fails the chat request: the response
\* is a 200 that carries the chat text and a conversation id, with no estimate.
C12_ChatSurvivesEstimateFailure ==
    (pc = "k_done" /\ resp.status \notin {0, 200}) =>
        /\ chat.status = 200
        /\ chat.text # "none"
        /\ chat.conversation_id
        /\ ~chat.estimate.present

C12_Witness ==
    /\ pc = "k_done"
    /\ resp.status = 500
    /\ chat.status = 200
    /\ chat.text = "llm"
    /\ chat.conversation_id

\* what POST /estimate answers to a non-blank text when no API key is
\* configured: a 200 with the totals of the emergency feature
estimate_without_client ==
    calculate_total(create_breakdown(<< EmergencyFeature >>, DefaultRate))

\* C13: POST /chat attaches an estimate whenever estimate generation for the
\* same message succeeds.  Without an API key POST /estimate answers every
\* non-blank text with a 200, so the chat response to such a message carries
\* that estimate.
C13_ChatAttachesEstimate ==
    (pc = "k_done" /\ chat.status = 200 /\ ~client /\ chat.message.text.ink > 0) =>
        /\ chat.estimate.present
        /\ chat.estimate.totals = estimate_without_client

----------------------------------------------------------------------------
(* OpenAIService called directly: extract_features_from_query, chat,
   generate_estimate_response, _is_query_vague_or_irrelevant *)

\* a piece of the narrative: a literal, a feature name, a figure
Tok(kind, text, num) == [kind |-> kind, text |-> text, num |-> num]
Lit(text) == Tok("lit", text, 0)

\* "{x:.2f}" of an amount given in tenths of a cent, in cents
format_2f(mills) == RoundHalfEven(mills, 10)

\* "**{item.feature}**: {item.time_hours} hours, ${item.cost:.2f}\n"
item_tokens(item) ==
    << Lit("**"), Tok("feature", "", item.feature), Lit("**"),
       Tok("hours", "", item.time_hours), Tok("money", "", format_2f(item.cost)) >>

RECURSIVE items_tokens(_)
items_tokens(bd) ==
    IF bd = <<>> THEN <<>> ELSE item_tokens(Head(bd)) \o items_tokens(Tail(bd))

\* "for assumption in assumptions[:4]"
assumption_tokens(n) == [i \in 1..MinOf(n, 4) |-> Tok("assumption", "", i)]

\* _generate_fallback_response
generate_fallback_response(bd, total_time, total_cost, assumptions) ==
    << Lit("Based on your requirements:") >>
    \o items_tokens(bd)
    \o << Lit("**"), Lit("Total"), Lit("**"),
          Tok("hours", "", total_time), Tok("money", "", format_2f(total_cost)),
          Lit("**"), Lit("Timeline"), Lit("**"), Tok("timeline", "", 0),
          Lit("**"), Lit("Assumptions"), Lit("**") >>
    \o assumption_tokens(assumptions)

\* generate_estimate_response with the LLM called before the client is looked at
generate_estimate_response_unguarded(has_client, reply, n) ==
    IF reply.kind = "error" \/ ~has_client
    THEN [source |-> "template", llm_calls |-> 1,
          tokens |-> generate_fallback_response(n.breakdown, n.total_time,
                                                n.total_cost, n.assumptions)]
    ELSE [source |-> "llm", llm_calls |-> 1, tokens |-> << Tok("html", "", 0) >>]

\* generate_estimate_response: the template without a client or when the LLM
\* call fails, else the LLM's text with its markdown turned into HTML
generate_estimate_response(has_client, reply, n) ==
    IF ~has_client
    THEN [source |-> "template", llm_calls |-> 0,
          tokens |-> generate_fallback_response(n.breakdown, n.total_time,
                                                n.total_cost, n.assumptions)]
    ELSE IF reply.kind = "error"
    THEN [source |-> "template", llm_calls |-> 1,
          tokens |-> generate_fallback_response(n.breakdown, n.total_time,
                                                n.total_cost, n.assumptions)]
    ELSE [source |-> "llm", llm_calls |-> 1, tokens |-> << Tok("html", "", 0) >>]

\* FeatureBreakdown items as the caller builds them from create_breakdown,
\* costs in tenths of a cent
narrative_items(fs) ==
    LET bd == create_breakdown(fs, DefaultRate)
    IN  [i \in 1..Len(fs) |->
            [feature |-> i, time_hours |-> bd[i].time_hours, cost |-> 10 * bd[i].cost]]

NarrativeFeatures ==
    { <<>>, << EmergencyFeature >>, << EmergencyFeature, Head(BasicEstimate) >> }

\* the arguments of generate_estimate_response: the totals of the breakdown,
\* or a total cost that is not a whole number of cents
NarrativeInputs ==
    { [NoNarrative EXCEPT !.breakdown = narrative_items(fs),
                          !.total_time = calculate_total(create_breakdown(fs, DefaultRate)).time_max,
                          !.total_cost = 10 * calculate_total(create_breakdown(fs, DefaultRate)).cost_max + odd,
                          !.assumptions = a] :
        fs \in NarrativeFeatures, odd \in {0, 4}, a \in {0, 2, 6} }

\* _is_query_vague_or_irrelevant, with its "if not self.client"
vague_verdict(has_client, reply) ==
    IF ~has_client THEN [verdict |-> FALSE, llm_calls |-> 0]
    ELSE [verdict |-> is_query_vague_or_irrelevant(reply), llm_calls |-> 1]

InitSvc ==
    /\ pc \in {"x_start", "k_text", "g_start", "v_start"}
    /\ client \in BOOLEAN
    /\ estimates_txt \in BOOLEAN
    /\ NormIdle
    /\ EngineIdle
    /\ req = NoRequest
    /\ combined = NoText
    /\ context \in (IF pc = "x_start" THEN ContextKinds ELSE {"none"})
    /\ ctxCalls = 0
    /\ attempt = 0
    /\ pending = NoException
    /\ resp = NoResponse
    /\ tmp = "none"
    /\ ExtractorIdle
    /\ ContextIdle
    /\ via = "none"
    /\ chat \in (IF pc = "k_text"
                 THEN { [NoChat EXCEPT !.message = m, !.history = h] :
                          m \in MessageInputs, h \in {"empty", "some"} }
                 ELSE {NoChat})
    /\ narr \in (IF pc = "g_start" THEN NarrativeInputs ELSE {NoNarrative})
    /\ vq = NoVerdict
    /\ buf = NoBuffer
    /\ SingletonsSet

SvcFrame == UNCHANGED <<normVars, ctxVars, engineVars, envVars, reqVars, xVars,
                        chatVars, buf, depVars>>

NarrativeCall ==
    /\ pc = "g_start"
    /\ \E reply \in ChatReplies :
          LET out == generate_estimate_response(client, reply, narr)
          IN  narr' = [narr EXCEPT !.source = out.source,
                                   !.llm_calls = out.llm_calls,
                                   !.tokens = out.tokens]
    /\ pc' = "g_done"
    /\ UNCHANGED vq
    /\ SvcFrame

VagueCall ==
    /\ pc = "v_start"
    /\ \E reply \in LlmReplies :
          LET out == vague_verdict(client, reply)
          IN  vq' = [reply |-> reply.kind, verdict |-> out.verdict,
                     llm_calls |-> out.llm_calls]
    /\ pc' = "v_done"
    /\ UNCHANGED narr
    /\ SvcFrame

NextSvc ==
    \/ NoClient
    \/ VagueCheck
    \/ NoContext
    \/ PrimaryCall
    \/ KeyLookup
    \/ DirectLookup
    \/ FallbackKey
    \/ FallbackQuery
    \/ KnowledgeCall
    \/ FinalVagueCheck
    \/ ChatText
    \/ NarrativeCall
    \/ VagueCall

SpecSvc == InitSvc /\ [][NextSvc]_vars

\* C11: with no API key configured, extract_features_from_query returns [],
\* chat returns the fixed not-configured message and
\* generate_estimate_response returns the template narrative; none of them
\* makes an LLM call and none raises.
C11_DegradedWithoutKey ==
    ~client =>
        /\ pc = "x_done" => (~xres.raised /\ xres.val = <<>> /\ calls = <<>>)
        /\ pc = "k_estimate" => (chat.text = "not_configured" /\ chat.llm_calls = 0
                                 /\ ~chat.raised)
        /\ pc = "g_done" => (narr.source = "template" /\ narr.llm_calls = 0
                             /\ narr.tokens # <<>>)

C11_Witness ==
    /\ ~client
    /\ pc = "g_done"
    /\ narr.source = "template"
    /\ Len(narr.breakdown) = 2

HasToken(tokens, tok) == \E k \in 1..Len(tokens) : tokens[k] = tok

\* C14: the narrative produced without the LLM is non-empty, contains every
\* feature name of the breakdown and the exact total time and total cost it
\* was given, and contains no literal "**".
C14_TemplateNarrative ==
    (pc = "g_done" /\ narr.source = "template") =>
        /\ narr.tokens # <<>>
        /\ \A i \in 1..Len(narr.breakdown) :
              HasToken(narr.tokens, Tok("feature", "", narr.breakdown[i].feature))
        /\ HasToken(narr.tokens, Tok("hours", "", narr.total_time))
        /\ \E k \in 1..Len(narr.tokens) :
              narr.tokens[k].kind = "money" /\ 10 * narr.tokens[k].num = narr.total_cost
        /\ ~HasToken(narr.tokens, Lit("**"))

\* C17: when the LLM call of the vague check fails, by a transport error or
\* by a text that is not the expected JSON object, the check returns false.
C17_FailedCheckIsActionable ==
    (pc = "v_done" /\ vq.reply \notin {"verdict_true", "verdict_false"}) =>
        ~vq.verdict

----------------------------------------------------------------------------
(* Properties of the extractor's first steps *)

XLaterStages ==
    {"x_noctx", "x_primary", "x_key", "x_direct", "x_fb_key", "x_fb_query",
     "x_know", "x_vague_final"}

\* C16: once the first check classified the query vague, that call of
\* extract_features_from_query has returned []: it is at no later stage, it
\* made no LLM call after the classification call and no context retrieval.
C16_VagueReturnsAtOnce ==
    classified = "vague" =>
        /\ pc \notin XLaterStages
        /\ ~xres.raised /\ xres.val = <<>>
        /\ calls = << "vague" >>
        /\ retrievals = 0
        /\ prompt = <<>>

C16_Witness ==
    /\ pc = "x_done"
    /\ classified = "vague"
    /\ xres.stage = "vague"
    /\ context = "rich"

SectionsFrom(source) == { i \in 1..Len(prompt) : prompt[i].source = source }

\* C18 as stated: whenever Estimates.txt is loaded, the context of the primary
\* extraction prompt has it as a labeled section placed before the retrieval
\* results.
C18_EstimatesBeforeRetrieval ==
    (pc = "x_primary" /\ estimates_txt) =>
        /\ SectionsFrom("estimates_txt") # {}
        /\ \A i \in SectionsFrom("estimates_txt"), j \in SectionsFrom("retrieval") :
              i < j

\* C18 amended: whenever Estimates.txt is loaded, the context of the primary
\* extraction prompt has it as exactly one labeled section, whatever the
\* retrieval gave; it is the last section, after the retrieval results when
\* these have information and alone otherwise.
C18_EstimatesAlwaysIncluded ==
    (pc = "x_primary" /\ estimates_txt) =>
        /\ SectionsFrom("estimates_txt") = {Len(prompt)}
        /\ prompt # <<>>
        /\ SectionsFrom("retrieval") = (IF context_has_info THEN {1} ELSE {})
        /\ prompt[Len(prompt)].role = (IF context_has_info THEN "reference" ELSE "primary")

C18_Witness ==
    /\ pc = "x_primary"
    /\ estimates_txt
    /\ context_has_info
    /\ Len(prompt) = 2

----------------------------------------------------------------------------
(* Properties of the buffer *)

----------------------------------------------------------------------------
(* Properties of the context aggregator *)

\* the semantic index is available and its search yields text
index_yields_text == cq.vector_store = "ok" /\ indexed(cq.documents) # <<>>

\* some cached document scores above zero for the query
some_document_scores ==
    \E i \in 1..Len(cq.documents) : keyword_score(cq.documents[i], cq.query) > 0

\* C20: get_context_for_query returns the first non-empty source in a fixed
\* order: the semantic index if it is available and yields text, otherwise the
\* keyword fallback if a cached document scores above zero, otherwise the
\* primary reference document.  An index that is unavailable or whose search
\* fails raises nothing and leads to the keyword fallback.
C20_SourceOrder ==
    /\ pc \in {"c_start", "c_keyword", "c_examples", "c_done"}
    /\ pc = "c_done" =>
          cres.path = (IF index_yields_text THEN "vector"
                       ELSE IF some_document_scores THEN "keyword"
                       ELSE "examples")
    /\ pc = "c_done" => (cres.path # "examples" => cres.len > 0)
    /\ (cq.vector_store \in {"absent", "failing"} /\ pc \in {"c_examples", "c_done"}) =>
          (some_document_scores <=> (pc = "c_done" /\ cres.path = "keyword"))

C20_Witness ==
    /\ pc = "c_done"
    /\ cq.vector_store = "failing"
    /\ cres.path = "keyword"
    /\ Len(cq.documents) = 2

----------------------------------------------------------------------------
(* The singletons of endpoints.py: the startup event, then get_knowledge_base
   and get_openai_service run as dependencies of concurrent requests.  FastAPI
   runs a dependency that is a plain "def" in a worker thread, so the calls of
   different requests interleave statement by statement. *)

\* requests whose dependencies are resolved at the same time
NumRequests == 2

\* a dependency call: where it is, where get_knowledge_base returns to, the
\* kb the request was given, the kb for the new service, the kb inside the
\* service the request was given
Call(at, ret, kb, inner, svc) ==
    [pc |-> at, ret |-> ret, kb |-> kb, inner |-> inner, svc |-> svc]

\* startup_event: both singletons set, neither (KnowledgeBase raised inside
\* the try), or only the knowledge base (OpenAIService raised)
StartupOutcomes ==
    { [kb |-> 1, svc |-> 1], [kb |-> 0, svc |-> 0], [kb |-> 1, svc |-> 0] }

InitDeps ==
    /\ pc = "d_run"
    /\ \E o \in StartupOutcomes :
          /\ knowledge_base = o.kb
          /\ openai_service = o.svc
          /\ built = o.kb
    /\ thr = [t \in 1..NumRequests |-> Call("kb_check", "svc_check", 0, 0, 0)]
    /\ client = TRUE
    /\ estimates_txt = TRUE
    /\ NormIdle
    /\ EngineIdle
    /\ RequestIdle
    /\ ExtractorIdle
    /\ ContextIdle
    /\ ChatIdle
    /\ ServicesIdle

DepFrame == UNCHANGED <<pc, normVars, engineVars, envVars, reqVars, xVars,
                        ctxVars, chatVars, svcVars>>

\* "if _knowledge_base is None:"
KbCheck(t) ==
    /\ thr[t].pc = "kb_check"
    /\ thr' = [thr EXCEPT ![t].pc = IF knowledge_base = 0 THEN "kb_build"
                                    ELSE "kb_return"]
    /\ UNCHANGED <<knowledge_base, openai_service, built>>
    /\ DepFrame

\* KnowledgeBase(settings.DATA_DIR): a new instance
KbBuild(t) ==
    /\ thr[t].pc = "kb_build"
    /\ built' = built + 1
    /\ thr' = [thr EXCEPT ![t].pc = "kb_assign", ![t].inner = built']
    /\ UNCHANGED <<knowledge_base, openai_service>>
    /\ DepFrame

\* "_knowledge_base = " the new instance
KbAssign(t) ==
    /\ thr[t].pc = "kb_assign"
    /\ knowledge_base' = thr[t].inner
    /\ thr' = [thr EXCEPT ![t].pc = "kb_return"]
    /\ UNCHANGED <<openai_service, built>>
    /\ DepFrame

\* "return _knowledge_base": to the request, or to get_openai_service
KbReturn(t) ==
    /\ thr[t].pc = "kb_return"
    /\ thr' = IF thr[t].ret = "svc_check"
              THEN [thr EXCEPT ![t].pc = "svc_check", ![t].kb = knowledge_base,
                               ![t].inner = 0]
              ELSE [thr EXCEPT ![t].pc = "svc_build", ![t].inner = knowledge_base]
    /\ UNCHANGED <<knowledge_base, openai_service, built>>
    /\ DepFrame

\* "if _openai_service is None: kb = get_knowledge_base()"
SvcCheck(t) ==
    /\ thr[t].pc = "svc_check"
    /\ thr' = IF openai_service = 0
              THEN [thr EXCEPT ![t].pc = "kb_check", ![t].ret = "svc_build"]
              ELSE [thr EXCEPT ![t].pc = "svc_return"]
    /\ UNCHANGED <<knowledge_base, openai_service, built>>
    /\ DepFrame

\* "_openai_service = OpenAIService(kb)"
SvcBuild(t) ==
    /\ thr[t].pc = "svc_build"
    /\ openai_service' = thr[t].inner
    /\ thr' = [thr EXCEPT ![t].pc = "svc_return"]
    /\ UNCHANGED <<knowledge_base, built>>
    /\ DepFrame

\* "return _openai_service"; the request has both of its dependencies
SvcReturn(t) ==
    /\ thr[t].pc = "svc_return"
    /\ thr' = [thr EXCEPT ![t].pc = "ready", ![t].svc = openai_service]
    /\ UNCHANGED <<knowledge_base, openai_service, built>>
    /\ DepFrame

NextDeps ==
    \/ \E t \in DOMAIN thr : KbCheck(t)
    \/ \E t \in DOMAIN thr : KbBuild(t)
    \/ \E t \in DOMAIN thr : KbAssign(t)
    \/ \E t \in DOMAIN thr : KbReturn(t)
    \/ \E t \in DOMAIN thr : SvcCheck(t)
    \/ \E t \in DOMAIN thr : SvcBuild(t)
    \/ \E t \in DOMAIN thr : SvcReturn(t)

SpecDeps == InitDeps /\ [][NextDeps]_vars

\* C15: under every interleaving of concurrent requests, first requests that
\* find the singletons unset included, KnowledgeBase is constructed at most
\* once in the process and every request observes the same instance, as its
\* kb and inside its service.
C15_SingleKnowledgeBase ==
    /\ built <= 1
    /\ \A t, u \in DOMAIN thr :
          (thr[t].pc = "ready" /\ thr[u].pc = "ready") =>
              /\ thr[t].kb = thr[u].kb
              /\ thr[t].svc = thr[u].svc
              /\ thr[t].svc = thr[t].kb

----------------------------------------------------------------------------
(* Properties of the cascade's call sequence *)

\* the LLM calls of the cascade proper, without the vague checks
CascadeCalls == SelectSeq(calls, LAMBDA c : c # "vague")

CountOf(seq, sites) == Cardinality({ i \in 1..Len(seq) : seq[i] \in sites })

\* the stages in the order of the source text
StageRank(site) ==
    CASE site = "primary" -> 1
      [] site = "key" -> 2
      [] site = "direct" -> 3
      [] site = "fallback_key" -> 4
      [] site = "fallback" -> 5
      [] site = "knowledge" -> 6
      [] OTHER -> 0

\* the stages in the order the claim gives them: the parse strategies, the
\* simplified re-query, the key-based lookups, the general-knowledge fallback
ClaimedRank(site) ==
    CASE site = "primary" -> 1
      [] site = "fallback" -> 2
      [] site \in {"key", "direct", "fallback_key"} -> 3
      [] site = "knowledge" -> 4
      [] OTHER -> 0

\* C21 as stated: the cascade stages run in the order parse strategies,
\* simplified re-query, key-based lookup, general-knowledge fallback, so the
\* simplified re-query always precedes the key-based lookup.
C21_RequeryBeforeLookup ==
    \A i, j \in 1..Len(CascadeCalls) :
        i < j => ClaimedRank(CascadeCalls[i]) <= ClaimedRank(CascadeCalls[j])

\* C21 amended: the cascade stages run in the order parse strategies of the
\* primary call, key-based lookup in the combined context, direct key-based
\* lookup in Estimates.txt (only when it is loaded), the fallback extractor
\* (a key-based lookup again, then the simplified re-query), general-knowledge
\* fallback; a stage is attempted only while every earlier stage has produced
\* nothing, so the key-based lookup always precedes the simplified re-query.
C21_CascadeOrder ==
    /\ \A i, j \in 1..Len(CascadeCalls) :
          i < j => StageRank(CascadeCalls[i]) < StageRank(CascadeCalls[j])
    /\ CascadeCalls # <<>> => CascadeCalls[1] = "primary"
    /\ \A i \in 1..Len(CascadeCalls) :
          /\ CascadeCalls[i] = "direct" => estimates_txt
          /\ i > 1 =>
                \/ StageRank(CascadeCalls[i]) = StageRank(CascadeCalls[i - 1]) + 1
                \/ /\ ~estimates_txt
                   /\ CascadeCalls[i - 1] = "key"
                   /\ CascadeCalls[i] = "fallback_key"
    /\ pc \in XLaterStages => xres = NoResult

C21_Witness ==
    /\ pc = "x_know"
    /\ ~exc
    /\ calls = << "vague", "primary", "key", "direct", "fallback_key", "fallback" >>

\* C22: while one request is handled no cascade stage issues its LLM call
\* more than once and nothing is retried: the key-based lookup
\* _extract_from_estimates_txt, the vague check and the primary extraction
\* are each called at most once.
C22_EachStageOnce ==
    /\ CountOf(calls, {"key", "fallback_key"}) <= 1
    /\ CountOf(calls, {"vague"}) <= 1
    /\ CountOf(calls, {"primary"}) <= 1
    /\ attempt = 2 => CountOf(calls, {"vague", "primary", "key", "fallback_key"}) = 0

\* C30: every call of extract_features_from_query ends after at most 8 LLM
\* calls, on the exception-handler path too, and never goes back to an
\* earlier stage; the handler calls it at most twice, which makes at most 16
\* LLM calls for one POST /estimate request.
C30_BoundedCalls ==
    /\ Len(calls) <= 8
    /\ attempt <= 2
    /\ \A i, j \in 1..Len(CascadeCalls) :
          i < j => StageRank(CascadeCalls[i]) < StageRank(CascadeCalls[j])
    /\ pc \in XLaterStages \cup {"x_start"} => attempt \in {1, 2}

C30_Witness ==
    /\ pc = "x_done"
    /\ attempt = 2
    /\ Len(calls) = 8
    /\ exc

\* C27: POST /estimate never builds a breakdown from an empty feature list;
\* an empty first extraction is followed by exactly one more retrieval and
\* extraction, and when that is empty too (vague query, no LLM client, empty
\* LLM result) the request is answered 200 with 36.00 - 72.00 hours and
\* 36 * rate - 72 * rate dollars, from the single emergency feature.
C27_NeverEmptyBreakdown ==
    /\ pc = "h_engine" => features # <<>>
    /\ attempt <= 2 /\ ctxCalls = attempt
    /\ (pc \in {"h_engine", "done"} /\ via = "estimate" /\ attempt = 2
          /\ xres = [raised |-> FALSE, val |-> <<>>, stage |-> xres.stage]) =>
            /\ Len(features) = 1
            /\ features[1].min = 3000 /\ features[1].max = 6000
            /\ features[1].name
            /\ pc = "done" =>
                  /\ resp = Response(200, "ok", "")
                  /\ Len(breakdown) = 1
                  /\ totals =
                       [ time_min |-> 3600, time_max |-> 7200,
                         cost_min |-> (3600 * rate.num) \div rate.den,
                         cost_max |-> (7200 * rate.num) \div rate.den ]
                  /\ (3600 * rate.num) % rate.den = 0

C27_Witness ==
    /\ pc = "done"
    /\ via = "estimate"
    /\ attempt = 2
    /\ ~xres.raised /\ xres.val = <<>>
    /\ req.hourly_rate = Rate(171, 8)
    /\ totals.cost_min = 76950 /\ totals.cost_max = 153900
    /\ resp.status = 200

----------------------------------------------------------------------------
(* Properties of the spread cap and of the rounding of totals *)

\* C23: for every raw item that carries both base_time_hours_min and
\* base_time_hours_max, the returned base_time_hours_max is at most 1.3 times
\* the returned base_time_hours_min.
C23_SpreadCapped ==
    pc = "n_normalized" =>
        \A i \in 1..Len(raw) :
            raw[i].shape = "both" => 10 * features[i].max <= 13 * features[i].min

\* round(n / d) done once on the unrounded value; where the exact value is a
\* decimal tie the double may lie on either side of it
round_once(n, d) ==
    IF 2 * (n % d) = d THEN { n \div d, n \div d + 1 }
    ELSE { RoundHalfEven(n, d) }

\* C24: each total is round(sum over the features of the unrounded buffered
\* value, 2): no per-feature time or cost is rounded before the summation.
C24_RoundedOnce ==
    pc = "n_total" =>
        /\ totals.time_min \in
              round_once(SumSeq([i \in 1..Len(features) |-> final_time(features[i].min)]), 10)
        /\ totals.time_max \in
              round_once(SumSeq([i \in 1..Len(features) |-> final_time(features[i].max)]), 10)
        /\ totals.cost_min \in
              round_once(SumSeq([i \in 1..Len(features) |->
                                   feature_cost(features[i].min, rate)]), 10 * rate.den)
        /\ totals.cost_max \in
              round_once(SumSeq([i \in 1..Len(features) |->
                                   feature_cost(features[i].max, rate)]), 10 * rate.den)

----------------------------------------------------------------------------
(* Complexity does not reach the arithmetic of the engine *)

\* the same features with other complexity_level values
with_complexities(fs, cxs) == [i \in 1..Len(fs) |-> [fs[i] EXCEPT !.cx = cxs[i]]]

\* the numbers of a breakdown line
line_numbers(l) ==
    << l.time_hours, l.cost, l.time_min, l.time_max, l.cost_min, l.cost_max >>

\* C25: create_breakdown applies the buffer only: feature lists that differ
\* only in their complexity_level values give the same time_min, time_max,
\* cost_min, cost_max (and averages) on every line, equal to the buffered
\* hours, and the same totals.
C25_ComplexityIgnored ==
    pc = "n_breakdown" =>
        /\ \A cxs \in [1..Len(features) -> Complexities] :
              LET other == create_breakdown(with_complexities(features, cxs), rate)
              IN  /\ \A i \in 1..Len(features) :
                        line_numbers(other[i]) = line_numbers(breakdown[i])
                  /\ calculate_total(other) = calculate_total(breakdown)
        /\ \A i \in 1..Len(features) :
              /\ 10 * breakdown[i].time_min = (10 + BufferTenths) * features[i].min
              /\ 10 * breakdown[i].time_max = (10 + BufferTenths) * features[i].max

C25_Witness ==
    /\ pc = "n_breakdown"
    /\ Len(features) = 2
    /\ features[1].cx = "simple" /\ features[2].cx = "complex"
    /\ features[1].min = 2000 /\ features[2].min = 7000
    /\ breakdown[1].time_min = 2400 /\ breakdown[2].time_min = 8400
    /\ breakdown[2].complexity = "complex"

\* C29: _normalize_features is idempotent: applied to its own output it
\* returns the same list, whatever the shape of the raw items was.
C29_NormalizeIdempotent ==
    pc = "n_renormalized" => ~normres.raised /\ normres.val = features

----------------------------------------------------------------------------
(* Properties of the keyword fallback *)

\* C26: in the keyword fallback every emitted section carries the score
\* "matching query words longer than 2 characters, plus 2 for every priority
\* term in both query and document", which is positive; the sections come in
\* non-increasing score order, from at most the 8 highest-scoring documents,
\* and each takes at most 3000 characters of its document.
C26_KeywordRanking ==
    (pc = "c_done" /\ cres.path = "keyword") =>
        LET sec == cres.sections
            emitted == { sec[i].doc : i \in 1..Len(sec) }
            scoreOf(d) ==
                Cardinality({ w \in cq.query : WordLen(w) > 2 /\ w \in d.words })
                + 2 * Cardinality({ t \in {"team", "developer", "estimate"} :
                                      t \in cq.query /\ t \in d.words })
        IN  /\ Len(sec) >= 1 /\ Len(sec) <= 8
            /\ \A i \in 1..Len(sec) :
                  /\ \E k \in 1..Len(cq.documents) : cq.documents[k] = sec[i].doc
                  /\ sec[i].score = scoreOf(sec[i].doc)
                  /\ sec[i].score > 0
                  /\ sec[i].chars <= 3000
                  /\ sec[i].chars <= sec[i].doc.len
            /\ \A i, j \in 1..Len(sec) : i < j => sec[i].score >= sec[j].score
            /\ \A k \in 1..Len(cq.documents), i \in 1..Len(sec) :
                  scoreOf(cq.documents[k]) > sec[i].score =>
                      cq.documents[k] \in emitted

C26_Witness ==
    /\ pc = "c_done"
    /\ cres.path = "keyword"
    /\ cq.documents = ManyDocs
    /\ cq.query = {"payment", "team"}
    /\ Len(cres.sections) = 8
    /\ cres.sections[1].score = 4
    /\ cres.sections[8].score = 1

----------------------------------------------------------------------------
(* The temporary file of an upload *)

\* C28: once the upload has been written to its temporary file, the file
\* exists only while the try block runs and is gone when the handler returns,
\* whether the extraction succeeded, the suffix was refused with 400, or the
\* text extractor raised; a request without upload never has one.
C28_TempFileRemoved ==
    /\ tmp = "exists" => pc = "h_extract"
    /\ pc = "h_extract" => tmp = "exists"
    /\ (pc = "done" /\ via = "estimate") =>
          tmp = (IF HasFile(req) THEN "removed" ELSE "none")
    /\ \A outcome \in TryOutcomes : cleanup(outcome) = "removed"

C28_Witness ==
    /\ pc = "done"
    /\ via = "estimate"
    /\ UnsupportedUpload(req)
    /\ resp.status = 400
    /\ tmp = "removed"

=============================================================================
